---- MODULE Spec2Model ----
(***************************************************************************)
(* Model of the SDL3 dashboard skeleton: the App shell (app.cpp) and the   *)
(* two-threaded tick/event dispatch loop of main (main.cpp).               *)
(*                                                                         *)
(* Time is counted in clock steps of 1/ClockHz second.  Handles are        *)
(* natural numbers, 0 is nullptr.  An SDL_Event* is a sequence: <<>> is    *)
(* nullptr and <<e>> points to the event e, so that reading a field        *)
(* through a null pointer is not defined.                                  *)
(***************************************************************************)
EXTENDS Integers, Sequences, FiniteSets, TLC

VARIABLES
  app,             \* the App object: window, renderer, last_tick_time, last_event_time
  sdlLog,          \* calls made to the SDL runtime (init, create, destroy, quit), in order
  now,             \* Clock::now()
  lastCall,        \* the last App method call: name, argument, return value, App before it
  pc,              \* position of the main thread
  result,          \* main: SDL_AppResult result
  tick_event_type, \* main: the registered tick event type ("NONE" is 0)
  quitting,        \* main: bool quitting
  mutex,           \* owner of quitting_mutex
  notified,        \* quitting_signal: a notification is pending for the waiting ticker
  event,           \* main loop: SDL_Event event
  exit_status,     \* return value of main (-1 while running)
  queue,           \* the SDL event queue
  tpc,             \* position of the ticker thread
  last_tick_time,  \* ticker: last_tick_time
  next_tick_time,  \* ticker: next_tick_time
  ticker_start,    \* history: Clock::now() read when the ticker started
  tickLog,         \* history: the ticks pushed, each with its deadline and push time
  nativePushed,    \* history: number of native events pushed by external producers
  dequeued,        \* history: entries returned by SDL_WaitEvent, in order
  handled          \* history: handler invocations of the main loop, in order

vars == <<app, sdlLog, now, lastCall, pc, result, tick_event_type, quitting,
          mutex, notified, event, exit_status, queue, tpc, last_tick_time,
          next_tick_time, ticker_start, tickLog, nativePushed, dequeued, handled>>

appVars  == <<app, sdlLog, lastCall>>
mainVars == <<pc, result, tick_event_type, event, exit_status, dequeued, handled>>
tickVars == <<tpc, last_tick_time, next_tick_time, ticker_start, tickLog>>
syncVars == <<quitting, mutex, notified>>

----------------------------------------------------------------------------
(* Bounds of the model *)

MaxTime   == 5   \* the clock stops advancing here
ClockHz   == 2   \* clock steps per second
MaxNative == 2   \* native events pushed by external producers in one run
MaxInits  == 2   \* App::init calls made by a free caller of the shell
MaxExits  == 2   \* App::onExit calls made by a free caller of the shell

----------------------------------------------------------------------------
(* Constants of the program and of the SDL interface *)

TICK_PERIOD == 1 * ClockHz

SDL_APP_CONTINUE == "CONTINUE"
SDL_APP_SUCCESS  == "SUCCESS"
SDL_APP_FAILURE  == "FAILURE"
Verdicts == {SDL_APP_CONTINUE, SDL_APP_SUCCESS, SDL_APP_FAILURE}

\* Event types an App can be handed; "USER" is the type SDL_RegisterEvents returns.
EventTypes == {"QUIT", "KEY_DOWN", "MOUSE_MOTION", "USER"}
Keys       == {"Q", "A"}
Events     == {[type |-> ty, key |-> "NONE"] : ty \in EventTypes \ {"KEY_DOWN"}}
                \cup {[type |-> "KEY_DOWN", key |-> k] : k \in Keys}
\* Events produced by the window system: never the registered tick type.
NativeEvents == {e \in Events : e.type # "USER"}
NULL      == <<>>
EventPtrs == {NULL} \cup {<<e>> : e \in Events}

----------------------------------------------------------------------------
(* The SDL runtime, as the log of calls made to it *)

SdlCall(c, h) == [call |-> c, h |-> h]

RECURSIVE CountCalls(_, _)
CountCalls(log, c) ==
  IF log = <<>> THEN 0
  ELSE (IF Head(log).call = c THEN 1 ELSE 0) + CountCalls(Tail(log), c)

\* Handles are fresh: the k-th successful creation yields window 2k-1, renderer 2k.
NewWindow(log)   == 2 * CountCalls(log, "SDL_CreateWindow") + 1
NewRenderer(log) == 2 * CountCalls(log, "SDL_CreateWindow") + 2

----------------------------------------------------------------------------
(* struct App *)

App0 == [window |-> 0, renderer |-> 0, last_tick_time |-> 0, last_event_time |-> 0]

\* App::init; ok is the outcome of SDL_CreateWindowAndRenderer, which leaves
\* both out-pointers null when it fails.
init(a, log, ok) ==
  LET log1 == Append(log, SdlCall("SDL_Init", 0)) IN
  IF ~ok
    THEN [ret |-> SDL_APP_FAILURE,
          app |-> [a EXCEPT !.window = 0, !.renderer = 0],
          log |-> log1]
    ELSE [ret |-> SDL_APP_CONTINUE,
          app |-> [a EXCEPT !.window = NewWindow(log1), !.renderer = NewRenderer(log1)],
          log |-> log1 \o <<SdlCall("SDL_CreateWindow", NewWindow(log1)),
                           SdlCall("SDL_CreateRenderer", NewRenderer(log1))>>]

\* App::onTick; t is the clock value read at entry, stored by the Defer at exit.
onTick(a, t) ==
  [ret |-> SDL_APP_CONTINUE, app |-> [a EXCEPT !.last_tick_time = t]]

\* Variant: every key press quits.
onEventSwitchAnyKey(e) ==
  IF e.type = "QUIT" THEN SDL_APP_SUCCESS
  ELSE IF e.type = "KEY_DOWN" THEN SDL_APP_SUCCESS
  ELSE SDL_APP_CONTINUE

\* The switch of App::onEvent on a non-null event.
onEventSwitch(e) ==
  IF e.type = "QUIT" THEN SDL_APP_SUCCESS
  ELSE IF e.type = "KEY_DOWN" /\ e.key = "Q" THEN SDL_APP_SUCCESS
  ELSE SDL_APP_CONTINUE

\* Variant: the Defer is set up after the switch, the early returns skip it.
onEventStampAtEnd(a, p, t) ==
  IF p = NULL
    THEN [ret |-> SDL_APP_FAILURE, app |-> a]
    ELSE IF onEventSwitch(p[1]) = SDL_APP_CONTINUE
           THEN [ret |-> SDL_APP_CONTINUE, app |-> [a EXCEPT !.last_event_time = t]]
           ELSE [ret |-> onEventSwitch(p[1]), app |-> a]

\* Variant: the Defer is set up before the null check.
onEventDeferFirst(a, p, t) ==
  IF p = NULL
    THEN [ret |-> SDL_APP_FAILURE, app |-> [a EXCEPT !.last_event_time = t]]
    ELSE [ret |-> onEventSwitch(p[1]), app |-> [a EXCEPT !.last_event_time = t]]

\* App::onEvent; p is the SDL_Event*, t the clock value read after the null check.
onEvent(a, p, t) ==
  IF p = NULL
    THEN [ret |-> SDL_APP_FAILURE, app |-> a]
    ELSE [ret |-> onEventSwitch(p[1]), app |-> [a EXCEPT !.last_event_time = t]]

\* Variant: the window is destroyed before the renderer.
onExitWindowFirst(a, log, v) ==
  LET log1 == IF a.window # 0
                THEN Append(log, SdlCall("SDL_DestroyWindow", a.window))
                ELSE log
      log2 == IF a.renderer # 0
                THEN Append(log1, SdlCall("SDL_DestroyRenderer", a.renderer))
                ELSE log1
  IN [app |-> [a EXCEPT !.renderer = 0, !.window = 0],
      log |-> Append(log2, SdlCall("SDL_Quit", 0))]

\* Variant: the window is destroyed but the field is not reset.
onExitKeepsWindow(a, log, v) ==
  LET log1 == IF a.renderer # 0
                THEN Append(log, SdlCall("SDL_DestroyRenderer", a.renderer))
                ELSE log
      log2 == IF a.window # 0
                THEN Append(log1, SdlCall("SDL_DestroyWindow", a.window))
                ELSE log1
  IN [app |-> [a EXCEPT !.renderer = 0],
      log |-> Append(log2, SdlCall("SDL_Quit", 0))]

\* App::onExit; the verdict v is not used by the body.
onExit(a, log, v) ==
  LET log1 == IF a.renderer # 0
                THEN Append(log, SdlCall("SDL_DestroyRenderer", a.renderer))
                ELSE log
      log2 == IF a.window # 0
                THEN Append(log1, SdlCall("SDL_DestroyWindow", a.window))
                ELSE log1
  IN [app |-> [a EXCEPT !.renderer = 0, !.window = 0],
      log |-> Append(log2, SdlCall("SDL_Quit", 0))]

NoCall == [op |-> "none", arg |-> NULL, ret |-> "NONE", pre |-> App0, at |-> 0]
Call(op, arg, ret, pre, at) == [op |-> op, arg |-> arg, ret |-> ret, pre |-> pre, at |-> at]

----------------------------------------------------------------------------
(* Initial states *)

InitCommon ==
  /\ app = App0
  /\ sdlLog = <<>>
  /\ now = 1
  /\ lastCall = NoCall
  /\ result = "NONE"
  /\ tick_event_type = "NONE"
  /\ quitting = FALSE
  /\ mutex = "none"
  /\ notified = FALSE
  /\ event = NULL
  /\ exit_status = -1
  /\ queue = <<>>
  /\ tpc = "idle"
  /\ last_tick_time = 0
  /\ next_tick_time = 0
  /\ ticker_start = 0
  /\ tickLog = <<>>
  /\ nativePushed = 0
  /\ dequeued = <<>>
  /\ handled = <<>>

\* main() has just constructed App app{}.
Init == InitCommon /\ pc = "init"

----------------------------------------------------------------------------
(* The environment: the clock and the external producers of native events *)

ClockTick ==
  /\ now < MaxTime
  /\ now' = now + 1
  /\ UNCHANGED <<appVars, mainVars, tickVars, syncVars, queue, nativePushed>>

ExternalPush ==
  /\ pc \notin {"init", "done", "shell"}
  /\ nativePushed < MaxNative
  /\ \E e \in NativeEvents : queue' = Append(queue, e)
  /\ nativePushed' = nativePushed + 1
  /\ UNCHANGED <<appVars, mainVars, tickVars, syncVars, now>>

----------------------------------------------------------------------------
(* The main thread *)

\* Leaving main with the Defer app_shut_down in scope: the return value is
\* computed, then the destructor calls app.onExit(result).
app_shut_down(status) ==
  LET r == onExit(app, sdlLog, result) IN
  /\ exit_status' = status
  /\ app' = r.app
  /\ sdlLog' = r.log
  /\ lastCall' = Call("onExit", NULL, result, app, now)
  /\ pc' = "done"

\* result = app.init(argc, argv) and the two early returns.
MainInit ==
  /\ pc = "init"
  /\ \E ok \in BOOLEAN :
       LET r == init(app, sdlLog, ok) IN
       /\ app' = r.app
       /\ sdlLog' = r.log
       /\ result' = r.ret
       /\ lastCall' = Call("init", NULL, r.ret, app, now)
       /\ IF r.ret = SDL_APP_SUCCESS
            THEN pc' = "done" /\ exit_status' = 0
            ELSE IF r.ret = SDL_APP_FAILURE
                   THEN pc' = "done" /\ exit_status' = 1
                   ELSE pc' = "register" /\ exit_status' = exit_status
  /\ UNCHANGED <<tick_event_type, event, dequeued, handled,
                 tickVars, syncVars, now, queue, nativePushed>>

\* Variant: the failure is reported but main does not return.
MainRegisterNoReturn ==
  /\ pc = "register"
  /\ \E id \in {"NONE", "USER"} :
       /\ tick_event_type' = id
       /\ pc' = "spawn"
       /\ UNCHANGED <<appVars, exit_status>>
  /\ UNCHANGED <<result, event, dequeued, handled,
                 tickVars, syncVars, now, queue, nativePushed>>

\* SDL_RegisterEvents(1) returns the new type, or 0 ("NONE") when none is left.
MainRegister ==
  /\ pc = "register"
  /\ \E id \in {"NONE", "USER"} :
       /\ tick_event_type' = id
       /\ IF id = "NONE"
            THEN app_shut_down(1)
            ELSE pc' = "spawn" /\ UNCHANGED <<appVars, exit_status>>
  /\ UNCHANGED <<result, event, dequeued, handled,
                 tickVars, syncVars, now, queue, nativePushed>>

\* std::thread ticker(...)
MainSpawn ==
  /\ pc = "spawn"
  /\ tpc' = "start"
  /\ pc' = "wait"
  /\ UNCHANGED <<appVars, result, tick_event_type, event, exit_status, dequeued,
                 handled, last_tick_time, next_tick_time, ticker_start, tickLog,
                 syncVars, now, queue, nativePushed>>

\* Variant: a failed SDL_WaitEvent is taken for a failure verdict.
MainWaitFailQuits ==
  /\ pc = "wait"
  /\ \/ /\ queue # <<>>
        /\ event' = <<Head(queue)>>
        /\ queue' = Tail(queue)
        /\ dequeued' = Append(dequeued, Head(queue))
        /\ pc' = "dispatch"
        /\ result' = result
     \/ /\ pc' = "check"
        /\ result' = SDL_APP_FAILURE
        /\ UNCHANGED <<event, queue, dequeued>>
  /\ UNCHANGED <<appVars, tick_event_type, exit_status, handled,
                 tickVars, syncVars, now, nativePushed>>

\* Variant: the loop drains the queue and keeps only the newest entry.
MainWaitDrain ==
  /\ pc = "wait"
  /\ \/ /\ queue # <<>>
        /\ event' = <<queue[Len(queue)]>>
        /\ queue' = <<>>
        /\ dequeued' = dequeued \o queue
        /\ pc' = "dispatch"
     \/ /\ pc' = "check"
        /\ UNCHANGED <<event, queue, dequeued>>
  /\ UNCHANGED <<appVars, result, tick_event_type, exit_status, handled,
                 tickVars, syncVars, now, nativePushed>>

\* SDL_WaitEvent(&event): takes the oldest entry, or fails and leaves event alone.
MainWait ==
  /\ pc = "wait"
  /\ \/ /\ queue # <<>>
        /\ event' = <<Head(queue)>>
        /\ queue' = Tail(queue)
        /\ dequeued' = Append(dequeued, Head(queue))
        /\ pc' = "dispatch"
     \/ /\ pc' = "check"
        /\ UNCHANGED <<event, queue, dequeued>>
  /\ UNCHANGED <<appVars, result, tick_event_type, exit_status, handled,
                 tickVars, syncVars, now, nativePushed>>

\* Variant: the test of the entry's type is lost, everything goes to onEvent.
RouteAllToOnEvent(e, tickType) == "onEvent"

\* The handler the loop calls for the entry it holds.
Route(e, tickType) == IF e.type = tickType THEN "onTick" ELSE "onEvent"

MainDispatch ==
  /\ pc = "dispatch"
  /\ LET h == Route(event[1], tick_event_type)
         r == IF h = "onTick" THEN onTick(app, now) ELSE onEvent(app, event, now)
     IN /\ result' = r.ret
        /\ app' = r.app
        /\ lastCall' = Call(h, IF h = "onTick" THEN NULL ELSE event, r.ret, app, now)
        /\ handled' = Append(handled, [handler |-> h, entry |-> event[1]])
  /\ pc' = "check"
  /\ UNCHANGED <<sdlLog, tick_event_type, event, exit_status, dequeued,
                 tickVars, syncVars, now, queue, nativePushed>>

\* Variant: the loop ends only once the queue is empty.
MainCheckDrainFirst ==
  /\ pc = "check"
  /\ pc' = IF result # SDL_APP_CONTINUE /\ queue = <<>> THEN "lock" ELSE "wait"
  /\ event' = NULL
  /\ UNCHANGED <<appVars, result, tick_event_type, exit_status, dequeued, handled,
                 tickVars, syncVars, now, queue, nativePushed>>

\* if (result != SDL_APP_CONTINUE); the loop body's event goes out of scope.
MainCheck ==
  /\ pc = "check"
  /\ pc' = IF result # SDL_APP_CONTINUE THEN "lock" ELSE "wait"
  /\ event' = NULL
  /\ UNCHANGED <<appVars, result, tick_event_type, exit_status, dequeued, handled,
                 tickVars, syncVars, now, queue, nativePushed>>

\* Variant: main does not wait for the mutex to be free.
MainLockNoWait ==
  /\ pc = "lock"
  /\ mutex' = "main"
  /\ pc' = "quit"
  /\ UNCHANGED <<appVars, result, tick_event_type, event, exit_status, dequeued,
                 handled, tickVars, quitting, notified, now, queue, nativePushed>>

\* std::scoped_lock quitting_lock{quitting_mutex}
MainLock ==
  /\ pc = "lock"
  /\ mutex = "none"
  /\ mutex' = "main"
  /\ pc' = "quit"
  /\ UNCHANGED <<appVars, result, tick_event_type, event, exit_status, dequeued,
                 handled, tickVars, quitting, notified, now, queue, nativePushed>>

\* Variant: the lock outlives the loop and is still held at join.
MainQuitKeepsLock ==
  /\ pc = "quit"
  /\ quitting' = TRUE
  /\ pc' = "notify"
  /\ UNCHANGED <<appVars, result, tick_event_type, event, exit_status, dequeued,
                 handled, tickVars, mutex, notified, now, queue, nativePushed>>

\* quitting = true; break; the scoped_lock is released on leaving the block.
MainQuit ==
  /\ pc = "quit"
  /\ quitting' = TRUE
  /\ mutex' = "none"
  /\ pc' = "notify"
  /\ UNCHANGED <<appVars, result, tick_event_type, event, exit_status, dequeued,
                 handled, tickVars, notified, now, queue, nativePushed>>

\* quitting_signal.notify_one(): wakes the ticker if it is waiting.
MainNotify ==
  /\ pc = "notify"
  /\ notified' = (tpc = "wait")
  /\ pc' = "join"
  /\ UNCHANGED <<appVars, result, tick_event_type, event, exit_status, dequeued,
                 handled, tickVars, quitting, mutex, now, queue, nativePushed>>

\* Variant: the ticker is detached instead of joined.
MainJoinNoWait ==
  /\ pc = "join"
  /\ pc' = "return"
  /\ UNCHANGED <<appVars, result, tick_event_type, event, exit_status, dequeued,
                 handled, tickVars, syncVars, now, queue, nativePushed>>

\* ticker.join()
MainJoin ==
  /\ pc = "join"
  /\ tpc = "done"
  /\ pc' = "return"
  /\ UNCHANGED <<appVars, result, tick_event_type, event, exit_status, dequeued,
                 handled, tickVars, syncVars, now, queue, nativePushed>>

\* Variant: the two arms of the conditional are swapped.
ExitStatusInverted(v) == IF v = SDL_APP_SUCCESS THEN 1 ELSE 0

ExitStatus(v) == IF v = SDL_APP_SUCCESS THEN 0 ELSE 1

\* return result == SDL_APP_SUCCESS ? 0 : 1;
MainReturn ==
  /\ pc = "return"
  /\ app_shut_down(ExitStatus(result))
  /\ UNCHANGED <<result, tick_event_type, event, dequeued, handled,
                 tickVars, syncVars, now, queue, nativePushed>>

----------------------------------------------------------------------------
(* The ticker thread *)

\* Clock::time_point last_tick_time = Clock::now(); tick_event.type = tick_event_type
TickerStart ==
  /\ tpc = "start"
  /\ last_tick_time' = now
  /\ ticker_start' = now
  /\ tpc' = "lock"
  /\ UNCHANGED <<appVars, mainVars, next_tick_time, tickLog, syncVars,
                 now, queue, nativePushed>>

\* std::unique_lock quitting_lock{quitting_mutex}
TickerLock ==
  /\ tpc = "lock"
  /\ mutex = "none"
  /\ mutex' = "ticker"
  /\ tpc' = "compute"
  /\ UNCHANGED <<appVars, mainVars, last_tick_time, next_tick_time, ticker_start,
                 tickLog, quitting, notified, now, queue, nativePushed>>

\* next_tick_time = last_tick_time + TICK_PERIOD
TickerCompute ==
  /\ tpc = "compute"
  /\ next_tick_time' = last_tick_time + TICK_PERIOD
  /\ tpc' = "pred"
  /\ UNCHANGED <<appVars, mainVars, last_tick_time, ticker_start, tickLog,
                 syncVars, now, queue, nativePushed>>

\* wait_until(lock, deadline, pred), the test of pred before blocking: returns
\* true (break) when quitting, otherwise releases the mutex and blocks.
TickerPred ==
  /\ tpc = "pred"
  /\ IF quitting
       THEN tpc' = "exit" /\ UNCHANGED <<mutex, notified>>
       ELSE tpc' = "wait" /\ mutex' = "none" /\ notified' = FALSE
  /\ UNCHANGED <<appVars, mainVars, last_tick_time, next_tick_time, ticker_start,
                 tickLog, quitting, now, queue, nativePushed>>

\* Variant: any wake-up without quitting counts as the deadline.
ResumeOnAnyWake(timedOut, quit) ==
  IF quit THEN "exit" ELSE "push"

\* Variant: wait_until without a predicate, a timeout always pushes.
ResumeNoPred(timedOut, quit) ==
  IF timedOut THEN "push" ELSE "pred"

\* Where wait_until goes once it has the mutex again: on timeout it returns
\* pred(), so the loop breaks when quitting and pushes otherwise; without
\* timeout it tests pred again.
Resume(timedOut, quit) ==
  IF timedOut THEN (IF quit THEN "exit" ELSE "push") ELSE "pred"

WakeUp ==
  /\ mutex' = "ticker"
  /\ notified' = FALSE
  /\ tpc' = Resume(now >= next_tick_time, quitting)
  /\ UNCHANGED <<appVars, mainVars, last_tick_time, next_tick_time, ticker_start,
                 tickLog, quitting, now, queue, nativePushed>>

\* The blocked wait ends by notification or because the deadline is reached;
\* the ticker continues once it has re-acquired the mutex.
TickerWake ==
  /\ tpc = "wait"
  /\ mutex = "none"
  /\ notified \/ now >= next_tick_time
  /\ WakeUp

\* A condition variable may also wake up spuriously.
TickerSpuriousWake ==
  /\ tpc = "wait"
  /\ mutex = "none"
  /\ ~notified /\ now < next_tick_time
  /\ WakeUp

\* Variant: the next period is counted from the time of the push.
TickerPushFromNow ==
  /\ tpc = "push"
  /\ queue' = Append(queue, [type |-> tick_event_type, key |-> "NONE"])
  /\ tickLog' = Append(tickLog, [deadline |-> next_tick_time, at |-> now])
  /\ last_tick_time' = now
  /\ tpc' = "compute"
  /\ UNCHANGED <<appVars, mainVars, next_tick_time, ticker_start, syncVars,
                 now, nativePushed>>

\* SDL_PushEvent(&tick_event); last_tick_time = next_tick_time
TickerPush ==
  /\ tpc = "push"
  /\ queue' = Append(queue, [type |-> tick_event_type, key |-> "NONE"])
  /\ tickLog' = Append(tickLog, [deadline |-> next_tick_time, at |-> now])
  /\ last_tick_time' = next_tick_time
  /\ tpc' = "compute"
  /\ UNCHANGED <<appVars, mainVars, next_tick_time, ticker_start, syncVars,
                 now, nativePushed>>

\* break; the unique_lock is released when the thread function returns.
TickerExit ==
  /\ tpc = "exit"
  /\ mutex' = "none"
  /\ tpc' = "done"
  /\ UNCHANGED <<appVars, mainVars, last_tick_time, next_tick_time, ticker_start,
                 tickLog, quitting, notified, now, queue, nativePushed>>

----------------------------------------------------------------------------
(* The program *)

Main == \/ MainInit \/ MainRegister \/ MainSpawn \/ MainWait \/ MainDispatch
        \/ MainCheck \/ MainLock \/ MainQuit \/ MainNotify \/ MainJoin \/ MainReturn

Ticker == \/ TickerStart \/ TickerLock \/ TickerCompute \/ TickerPred
          \/ TickerWake \/ TickerSpuriousWake \/ TickerPush \/ TickerExit

Next == Main \/ Ticker \/ ClockTick \/ ExternalPush

Spec == Init /\ [][Next]_vars

----------------------------------------------------------------------------
(* The App driven by an arbitrary caller, in any order of its four methods *)

InitShell == InitCommon /\ pc = "shell"

ShellInit ==
  /\ pc = "shell"
  /\ CountCalls(sdlLog, "SDL_Init") < MaxInits
  /\ \E ok \in BOOLEAN :
       LET r == init(app, sdlLog, ok) IN
       /\ app' = r.app
       /\ sdlLog' = r.log
       /\ lastCall' = Call("init", NULL, r.ret, app, now)
  /\ UNCHANGED <<mainVars, tickVars, syncVars, now, queue, nativePushed>>

ShellOnTick ==
  /\ pc = "shell"
  /\ LET r == onTick(app, now) IN
       /\ app' = r.app
       /\ lastCall' = Call("onTick", NULL, r.ret, app, now)
  /\ UNCHANGED <<sdlLog, mainVars, tickVars, syncVars, now, queue, nativePushed>>

ShellOnEvent ==
  /\ pc = "shell"
  /\ \E p \in EventPtrs :
       LET r == onEvent(app, p, now) IN
       /\ app' = r.app
       /\ lastCall' = Call("onEvent", p, r.ret, app, now)
  /\ UNCHANGED <<sdlLog, mainVars, tickVars, syncVars, now, queue, nativePushed>>

ShellOnExit ==
  /\ pc = "shell"
  /\ CountCalls(sdlLog, "SDL_Quit") < MaxExits
  /\ \E v \in Verdicts :
       LET r == onExit(app, sdlLog, v) IN
       /\ app' = r.app
       /\ sdlLog' = r.log
       /\ lastCall' = Call("onExit", NULL, v, app, now)
  /\ UNCHANGED <<mainVars, tickVars, syncVars, now, queue, nativePushed>>

NextShell == ShellInit \/ ShellOnTick \/ ShellOnEvent \/ ShellOnExit \/ ClockTick

SpecShell == InitShell /\ [][NextShell]_vars

\* Fair scheduling of the two threads: each thread keeps taking steps, and a
\* thread blocked in lock() gets the mutex if it is free again and again.
\* Nothing obliges the clock to advance, producers to push or a condition
\* variable to wake up spuriously.
FairSpec == Spec /\ WF_vars(Main) /\ SF_vars(MainLock)
                 /\ WF_vars(TickerStart \/ TickerLock \/ TickerCompute \/ TickerPred
                            \/ TickerWake \/ TickerPush \/ TickerExit)

----------------------------------------------------------------------------
(* Properties *)

IsDestroy(c) == c.call \in {"SDL_DestroyRenderer", "SDL_DestroyWindow"}

\* C1: the k-th handler call of the main loop handles the k-th entry that
\* SDL_WaitEvent returned: handler calls follow the dequeue order one for one,
\* a tick is never handled ahead of an earlier event nor an event ahead of an
\* earlier tick, and at most the entry just dequeued is still unhandled.
C1_HandlersFollowDequeueOrder ==
  /\ Len(handled) <= Len(dequeued)
  /\ Len(dequeued) - Len(handled) = (IF pc = "dispatch" THEN 1 ELSE 0)
  /\ \A k \in 1..Len(handled) : handled[k].entry = dequeued[k]

C1_Witness ==
  /\ Len(handled) >= 3
  /\ handled[1].handler = "onEvent"
  /\ handled[2].handler = "onTick"
  /\ handled[3].handler = "onEvent"

\* C2: when main has returned, App::onExit has been called exactly once.
C2_ExactlyOneShutdown ==
  pc = "done" => CountCalls(sdlLog, "SDL_Quit") = 1

\* C3: no window or renderer handle is destroyed twice, and after an onExit
\* call both handles of the App are null, whatever verdict was passed.
C3_NoDoubleRelease ==
  /\ \A i, j \in DOMAIN sdlLog :
       (IsDestroy(sdlLog[i]) /\ sdlLog[i] = sdlLog[j]) => i = j
  /\ lastCall.op = "onExit" => (app.window = 0 /\ app.renderer = 0)

C3_Witness ==
  /\ lastCall.op = "onExit"
  /\ lastCall.pre.window = 0
  /\ CountCalls(sdlLog, "SDL_Quit") = 2
  /\ CountCalls(sdlLog, "SDL_DestroyWindow") = 1
  /\ CountCalls(sdlLog, "SDL_DestroyRenderer") = 1

\* C4: no step taken while quitting is true pushes a tick.
C4_NoTickAfterQuitting ==
  [][quitting => tickLog' = tickLog]_vars

\* The ticker left its loop although its deadline had been reached.
C4_Witness ==
  /\ quitting
  /\ tpc = "exit"
  /\ tickLog # <<>>
  /\ now >= next_tick_time
  /\ next_tick_time = last_tick_time + TICK_PERIOD

\* C5: under fair scheduling, once a handler has returned a verdict other
\* than Continue the run ends: main sets quitting, the ticker leaves its loop,
\* join returns, onExit runs and main returns.
C5_QuitLeadsToExit ==
  (pc = "check" /\ result # SDL_APP_CONTINUE)
    ~> (pc = "done" /\ tpc = "done" /\ exit_status # -1
        /\ CountCalls(sdlLog, "SDL_Quit") = 1)

\* main is about to notify and the ticker, already awake, is not waiting.
C5_Witness ==
  /\ pc = "notify"
  /\ quitting
  /\ tpc \in {"pred", "exit"}

\* C6: the n-th deadline of the ticker is its start time plus n periods,
\* however late the ticks were pushed or handled.
C6_DeadlinesArithmetic ==
  /\ tpc \notin {"idle", "start"}
       => last_tick_time = ticker_start + Len(tickLog) * TICK_PERIOD
  /\ tpc \in {"pred", "wait", "push"}
       => next_tick_time = ticker_start + (Len(tickLog) + 1) * TICK_PERIOD
  /\ \A n \in 1..Len(tickLog) :
       tickLog[n].deadline = ticker_start + n * TICK_PERIOD

\* A second deadline was computed after the first tick was pushed late.
C6_Witness ==
  /\ Len(tickLog) >= 1
  /\ tickLog[1].at > tickLog[1].deadline
  /\ tpc = "wait"
  /\ next_tick_time = ticker_start + 2 * TICK_PERIOD

\* C7: for a non-null event onEvent returns Succeed for a quit request and
\* for a press of the quit key, and Continue for anything else.
C7_OnEventVerdict ==
  (lastCall.op = "onEvent" /\ lastCall.arg # NULL) =>
     LET e == lastCall.arg[1] IN
     /\ e.type = "QUIT" => lastCall.ret = SDL_APP_SUCCESS
     /\ (e.type = "KEY_DOWN" /\ e.key = "Q") => lastCall.ret = SDL_APP_SUCCESS
     /\ (e.type # "QUIT" /\ ~(e.type = "KEY_DOWN" /\ e.key = "Q"))
          => lastCall.ret = SDL_APP_CONTINUE
     /\ lastCall.ret # SDL_APP_FAILURE

C7_Witness ==
  /\ lastCall.op = "onEvent"
  /\ lastCall.arg = <<[type |-> "KEY_DOWN", key |-> "A"]>>
  /\ lastCall.ret = SDL_APP_CONTINUE

\* C8: for a null event onEvent returns Fail and leaves the App as it was.
C8_NullEventFails ==
  (lastCall.op = "onEvent" /\ lastCall.arg = NULL) =>
     (lastCall.ret = SDL_APP_FAILURE /\ app = lastCall.pre)

C8_Witness ==
  /\ lastCall.op = "onEvent"
  /\ lastCall.arg = NULL
  /\ lastCall.at > app.last_event_time
  /\ app.last_event_time > 0
  /\ app.window # 0

\* C9: main returns 0 exactly when the final verdict is Succeed and 1
\* otherwise; nothing is returned before main is done.
C9_ExitStatus ==
  /\ pc = "done" => /\ exit_status \in {0, 1}
                    /\ exit_status = 0 <=> result = SDL_APP_SUCCESS
  /\ pc # "done" => exit_status = -1

C9_Witness ==
  /\ pc = "done"
  /\ exit_status = 0
  /\ handled # <<>>

\* App::init returned a failure: SDL was initialised and no window was created.
InitFailed == pc # "init" /\ CountCalls(sdlLog, "SDL_CreateWindow") = 0
\* SDL_RegisterEvents returned 0.
RegisterFailed == pc \notin {"init", "register"} /\ result = SDL_APP_CONTINUE
                    /\ tick_event_type = "NONE"

\* C10: if init did not return Continue or no tick type could be registered,
\* the ticker is never started and the loop never runs: nothing is dequeued
\* and no handler is called.
C10_NoLoopAfterFailedStartup ==
  (InitFailed \/ RegisterFailed) =>
     /\ pc = "done"
     /\ tpc = "idle"
     /\ dequeued = <<>>
     /\ handled = <<>>
     /\ lastCall.op \notin {"onTick", "onEvent"}

C10_Witness ==
  /\ RegisterFailed
  /\ pc = "done"
  /\ nativePushed > 0

\* C11: an onTick call stores the clock value read at its entry in
\* last_tick_time, changes nothing else and returns Continue; an onEvent call
\* on a non-null event stores it in last_event_time on every return path and
\* changes nothing else.
C11_HandlersOnlyStampTheirTime ==
  /\ lastCall.op = "onTick" =>
       /\ lastCall.ret = SDL_APP_CONTINUE
       /\ app.last_tick_time = lastCall.at
       /\ app.last_event_time = lastCall.pre.last_event_time
       /\ app.window = lastCall.pre.window
       /\ app.renderer = lastCall.pre.renderer
  /\ (lastCall.op = "onEvent" /\ lastCall.arg # NULL) =>
       /\ app.last_event_time = lastCall.at
       /\ app.last_tick_time = lastCall.pre.last_tick_time
       /\ app.window = lastCall.pre.window
       /\ app.renderer = lastCall.pre.renderer

\* A quit key press was stamped over an older event time, the rest kept.
C11_Witness ==
  /\ lastCall.op = "onEvent"
  /\ lastCall.arg = <<[type |-> "KEY_DOWN", key |-> "Q"]>>
  /\ lastCall.ret = SDL_APP_SUCCESS
  /\ lastCall.pre.last_event_time > 0
  /\ lastCall.at > lastCall.pre.last_event_time
  /\ app.last_tick_time > 0
  /\ app.window # 0

\* The SDL calls one onExit makes on an App a, in order.
ReleaseSteps(a) ==
  (IF a.renderer # 0 THEN <<SdlCall("SDL_DestroyRenderer", a.renderer)>> ELSE <<>>)
    \o (IF a.window # 0 THEN <<SdlCall("SDL_DestroyWindow", a.window)>> ELSE <<>>)
    \o <<SdlCall("SDL_Quit", 0)>>

\* C12: an onExit call destroys the renderer, if any, then the window, if
\* any, then calls SDL_Quit: nothing follows a destroyed renderer but its
\* window or SDL_Quit, nothing follows a destroyed window but SDL_Quit, and
\* SDL_Quit is called even when both handles are absent.
C12_ReleaseOrder ==
  /\ \A i \in DOMAIN sdlLog :
       /\ sdlLog[i].call = "SDL_DestroyRenderer" =>
            (i < Len(sdlLog) /\ sdlLog[i + 1].call \in {"SDL_DestroyWindow", "SDL_Quit"})
       /\ sdlLog[i].call = "SDL_DestroyWindow" =>
            (i < Len(sdlLog) /\ sdlLog[i + 1].call = "SDL_Quit")
  /\ lastCall.op = "onExit" =>
       LET steps == ReleaseSteps(lastCall.pre) IN
       /\ Len(sdlLog) >= Len(steps)
       /\ SubSeq(sdlLog, Len(sdlLog) - Len(steps) + 1, Len(sdlLog)) = steps

\* onExit ran once with both handles and once more with none.
C12_Witness ==
  /\ lastCall.op = "onExit"
  /\ lastCall.pre.window = 0
  /\ lastCall.pre.renderer = 0
  /\ CountCalls(sdlLog, "SDL_DestroyRenderer") = 1
  /\ CountCalls(sdlLog, "SDL_DestroyWindow") = 1
  /\ CountCalls(sdlLog, "SDL_Quit") = 2
  /\ sdlLog[Len(sdlLog) - 1].call = "SDL_Quit"

\* Something has been released: a handle destroyed or SDL_Quit called.
Released == \E i \in DOMAIN sdlLog : IsDestroy(sdlLog[i]) \/ sdlLog[i].call = "SDL_Quit"

\* C13: when onExit has begun to release anything, and when main is past the
\* join or has returned, the ticker was either never started or has ended.
C13_TickerJoinedBeforeShutdown ==
  (Released \/ pc \in {"return", "done"}) => tpc \in {"idle", "done"}

\* main has returned after a run in which the ticker pushed ticks.
C13_Witness ==
  /\ pc = "done"
  /\ tpc = "done"
  /\ tickLog # <<>>
  /\ CountCalls(sdlLog, "SDL_DestroyWindow") = 1
  /\ CountCalls(sdlLog, "SDL_Quit") = 1

\* C14: once result is a verdict other than Continue no step dequeues an
\* entry, calls a handler or changes result, and when main then returns its
\* status is the one of that verdict.
C14_NoHandlerAfterVerdict ==
  [][(result # "NONE" /\ result # SDL_APP_CONTINUE) =>
       (/\ handled' = handled
        /\ dequeued' = dequeued
        /\ result' = result
        /\ (pc # "done" /\ pc' = "done") =>
             exit_status' = (IF result = SDL_APP_SUCCESS THEN 0 ELSE 1))
    ]_vars

\* main returned 0 after a quit and left queued entries undispatched.
C14_Witness ==
  /\ pc = "done"
  /\ exit_status = 0
  /\ Len(handled) >= 2
  /\ handled[Len(handled)].entry.type = "QUIT"
  /\ queue # <<>>

\* Number of calls the main loop made to the handler h.
Calls(h) == Cardinality({k \in 1..Len(handled) : handled[k].handler = h})
\* Number of tick entries among the dequeued entries that were dispatched.
TicksDispatched ==
  Cardinality({k \in 1..Len(handled) : dequeued[k].type = tick_event_type})

\* C15: a dequeued entry goes to onTick if and only if its type is the
\* registered tick type, otherwise to onEvent; the onTick calls are as many as
\* the tick entries dispatched, at most as many as the ticks pushed, which are
\* at most the deadlines elapsed; without native events and with the queue
\* drained every pushed tick has had its onTick call and onEvent was never
\* called; last_tick_time of the App never decreases over an onTick call.
C15_RoutingAndTickCount ==
  /\ \A k \in 1..Len(handled) :
       handled[k].handler =
         (IF dequeued[k].type = tick_event_type THEN "onTick" ELSE "onEvent")
  /\ Calls("onTick") = TicksDispatched
  /\ Calls("onTick") + Calls("onEvent") = Len(handled)
  /\ Calls("onTick") <= Len(tickLog)
  /\ tpc \notin {"idle", "start"}
       => Len(tickLog) * TICK_PERIOD <= now - ticker_start
  /\ (nativePushed = 0 /\ queue = <<>> /\ pc = "wait")
       => (Calls("onTick") = Len(tickLog) /\ Calls("onEvent") = 0)
  /\ lastCall.op = "onTick" => app.last_tick_time >= lastCall.pre.last_tick_time

\* Two periods elapsed without native events and both ticks were handled.
C15_Witness ==
  /\ nativePushed = 0
  /\ queue = <<>>
  /\ pc = "wait"
  /\ Len(tickLog) = 2
  /\ Calls("onTick") = 2
  /\ lastCall.op = "onTick"
  /\ app.last_tick_time > lastCall.pre.last_tick_time
  /\ lastCall.pre.last_tick_time > 0

\* C16: when main has returned 1, everything init acquired has been released:
\* every window and renderer created has been destroyed, the App holds no
\* handle and each SDL_Init has its SDL_Quit.
C16_FailurePathsReleaseAll ==
  (pc = "done" /\ exit_status = 1) =>
     /\ app.window = 0
     /\ app.renderer = 0
     /\ CountCalls(sdlLog, "SDL_DestroyWindow") = CountCalls(sdlLog, "SDL_CreateWindow")
     /\ CountCalls(sdlLog, "SDL_DestroyRenderer") = CountCalls(sdlLog, "SDL_CreateRenderer")
     /\ CountCalls(sdlLog, "SDL_Quit") = CountCalls(sdlLog, "SDL_Init")

\* The positions at which each thread holds quitting_mutex.
MainHolds   == pc = "quit"
TickerHolds == tpc \in {"compute", "pred", "push", "exit"}

\* C17: the two threads never hold the mutex together; quitting is written
\* only by main while it holds the mutex, only from false to true and never
\* back; the ticker decides to leave its loop, which is where it reads
\* quitting, only while it holds the mutex; apart from quitting neither
\* thread writes the variables of the other.
C17_QuittingGuardedByMutex ==
  /\ [](/\ ~(MainHolds /\ TickerHolds)
        /\ mutex = "main" <=> MainHolds
        /\ mutex = "ticker" <=> TickerHolds)
  /\ [][/\ quitting' # quitting => (MainHolds /\ ~quitting /\ quitting')
        /\ (tpc' = "exit" /\ tpc # "exit") => (quitting /\ mutex' = "ticker")
        /\ (tpc' # tpc /\ tpc # "idle") =>
             UNCHANGED <<app, sdlLog, pc, result, tick_event_type, event, exit_status>>
        /\ pc' # pc => UNCHANGED <<last_tick_time, next_tick_time>>
       ]_vars

\* main holds the mutex while the ticker, its deadline reached, is blocked.
C17_Witness ==
  /\ mutex = "main"
  /\ tpc = "wait"
  /\ tickLog # <<>>
  /\ now >= next_tick_time

\* Number of entries of the sequence q that carry the registered tick type.
TickEntries(q) == Cardinality({k \in 1..Len(q) : q[k].type = tick_event_type})

\* C18: the ticker is about to push only with its deadline reached and
\* quitting false; the n-th tick pushed is the one of deadline start + n
\* periods and is pushed no earlier than that deadline, hence none at the
\* start time; every tick pushed is one entry of its own in the queue or
\* among the dequeued entries.
C18_OneTickPerDeadline ==
  /\ tpc = "push" => (~quitting /\ now >= next_tick_time)
  /\ \A n \in 1..Len(tickLog) :
       /\ tickLog[n].deadline = ticker_start + n * TICK_PERIOD
       /\ tickLog[n].at >= tickLog[n].deadline
       /\ tickLog[n].at > ticker_start
  /\ TickEntries(queue) + TickEntries(dequeued) = Len(tickLog)

\* The ticker fell a whole period behind and pushed two ticks back to back.
C18_Witness ==
  /\ Len(tickLog) = 2
  /\ tickLog[1].at = tickLog[2].at
  /\ tickLog[1].at >= tickLog[1].deadline + TICK_PERIOD
  /\ TickEntries(queue) = 2

\* main has left the dispatch loop.
LoopLeft == pc \in {"lock", "quit", "notify", "join", "return"}
              \/ (pc = "done" /\ tpc # "idle")

\* C19: in the loop result stays Continue until a handler returns otherwise,
\* also over a failed SDL_WaitEvent, which calls no handler; onEvent is never
\* given a null event; quitting is true only once the loop has been left, and
\* the loop is left only with Succeed from an onEvent call on a quit request
\* or a press of the quit key, so never after ticks alone, and main then
\* returns 0.
C19_OnlyQuitEndsTheLoop ==
  /\ pc \in {"wait", "dispatch"} => result = SDL_APP_CONTINUE
  /\ (pc = "check" /\ event = NULL) => result = SDL_APP_CONTINUE
  /\ lastCall.op = "onEvent" => lastCall.arg # NULL
  /\ lastCall.op = "onTick" => lastCall.ret = SDL_APP_CONTINUE
  /\ quitting => LoopLeft
  /\ LoopLeft =>
       /\ result = SDL_APP_SUCCESS
       /\ handled # <<>>
       /\ LET l == handled[Len(handled)] IN
            /\ l.handler = "onEvent"
            /\ l.entry.type = "QUIT" \/ (l.entry.type = "KEY_DOWN" /\ l.entry.key = "Q")
  /\ (pc = "done" /\ tpc # "idle") => exit_status = 0

\* SDL_WaitEvent failed after ticks alone had been handled: the loop goes on.
C19_Witness ==
  /\ pc = "check"
  /\ event = NULL
  /\ Len(handled) = 2
  /\ \A k \in 1..Len(handled) : handled[k].handler = "onTick"
  /\ ~quitting

====
